---- MODULE Spec2Model ----
(***************************************************************************)
(* Multi-level queue scheduler of App (src/unnamed/part_000, second        *)
(* version, lines 257-1103) with its display component QueueComponent.     *)
(*                                                                         *)
(* All durations are integers in hundredths of a duration unit: the code   *)
(* rounds progress to two decimals (line 679), so a task value v is v*100  *)
(* here and the decrement 0.4 is 40.                                       *)
(*                                                                         *)
(* React state hooks are the variables.  An event handler or timer         *)
(* callback is one action (all its setState calls are applied in one       *)
(* batch).  The four useEffect hooks that follow a commit run together on  *)
(* the committed snapshot and queue functional updaters, which are applied *)
(* one after another to the latest state: that is the action RunEffects.   *)
(* Click handlers run on a snapshot whose effects have been flushed (a     *)
(* discrete event flushes pending passive effects first).  The callbacks   *)
(* of two timers that are due together, the interval tick and a grace      *)
(* timeout, may both run before the render they schedule: their updates    *)
(* then land in one commit, and the effects see both.                      *)
(***************************************************************************)
EXTENDS Integers, Sequences, FiniteSets, TLC

\* ---------------------------------------------------------------- bounds
MaxValue == 1          \* task values are 0..MaxValue duration units
MaxQueue == 2          \* length of the main task queue
MaxTasks == 2          \* tasks in the main queue and the sub-queues together
MaxPending == 3        \* admitted values held by all sub-queues together
MaxHigh == 2           \* size of the high priority group
MaxRegular == 4        \* size of the regular priority group
MaxTimers == 2         \* outstanding pause (500 ms) and grace (1000 ms) timeouts together
LiveTimers == 1        \* the same, in the specifications whose timeouts do not overlap

\* ------------------------------------------------------ program constants
Scale == 100           \* hundredths: Math.round(x * 100) / 100
Decrement == 40        \* 0.4 per tick

VARIABLES
  queue,                  \* main task queue: Seq of [value, type]
  highPriorityQueues,     \* Seq of queue names
  regularPriorityQueues,  \* Seq of queue names
  newlyCreatedQueues,     \* set of queue names in their grace window
  subQueues,              \* name -> Seq of durations
  progress,               \* name -> remaining duration of the head
  initialDuration,        \* name -> duration recorded at initialization
  decrementPaused,        \* BOOLEAN
  pauseTimers,            \* number of pending setTimeout(.., 500) of admitTask
  graceTimers,            \* pending setTimeout(.., 1000) of the add handlers, oldest first
  effectsPending,         \* a commit's effects have not run yet
  origin,                 \* history: name -> Seq of task types, parallel to subQueues
  last                    \* history: the operation that produced this state

progVars == <<queue, highPriorityQueues, regularPriorityQueues, newlyCreatedQueues,
              subQueues, progress, initialDuration, decrementPaused>>
timerVars == <<pauseTimers, graceTimers>>
vars == <<queue, highPriorityQueues, regularPriorityQueues, newlyCreatedQueues,
          subQueues, progress, initialDuration, decrementPaused,
          pauseTimers, graceTimers, effectsPending, origin, last>>

\* ---------------------------------------------------------------- helpers
\* mutant: the name does not count the queues of the group
HighNameFirst(n) == <<"high", 1>>

HighName(n) == <<"high", n>>
RegularName(n) == <<"regular", n>>

RECURSIVE SumSeq(_)
SumSeq(s) == IF s = <<>> THEN 0 ELSE Head(s) + SumSeq(Tail(s))

Max(a, b) == IF a >= b THEN a ELSE b

Range(s) == {s[i] : i \in 1..Len(s)}

Front(s) == SubSeq(s, 1, Len(s) - 1)

AllQueues == highPriorityQueues \o regularPriorityQueues

Members == Range(AllQueues)

TotalPending == SumSeq([i \in 1..Len(AllQueues) |-> Len(subQueues[AllQueues[i]])])

\* timeouts that have been set and have not fired
PendingTimers == pauseTimers + Len(graceTimers)

TaskValues == {v * Scale : v \in 0..MaxValue}

TaskTypes == {"high", "normal"}

NoLast == [op |-> "init", target |-> <<>>, moved |-> <<>>, removed |-> <<>>,
           completed |-> {}, steals |-> {}, batched |-> FALSE]

\* the commit whose effects are pending came from the one timer callback `op`:
\* the callback of another timer that is due may still join it
JoinsTimer(op) == effectsPending /\ last.op = op /\ ~last.batched

\* mutant: the delete is forgotten
WithoutKept(st, k) == st

\* a store with key k deleted (delete newQueues[k])
Without(st, k) == [q \in DOMAIN st \ {k} |-> st[q]]

\* mutant: the entry of the new key is not written
WithSkipped(st, k, v) == st

\* a store with key k set ({...prev, [k]: v})
With(st, k, v) == [q \in DOMAIN st \cup {k} |-> IF q = k THEN v ELSE st[q]]

\* ------------------------------------------------------------------ state
Init ==
  /\ queue = <<>>
  /\ highPriorityQueues = <<HighName(1)>>
  /\ regularPriorityQueues = <<RegularName(1), RegularName(2), RegularName(3), RegularName(4)>>
  /\ newlyCreatedQueues = {}
  /\ subQueues = [q \in {HighName(1), RegularName(1), RegularName(2),
                         RegularName(3), RegularName(4)} |-> <<>>]
  /\ progress = [q \in {HighName(1), HighName(2), RegularName(1), RegularName(2),
                        RegularName(3), RegularName(4)} |-> 0]
  /\ initialDuration = [q \in {HighName(1), HighName(2), RegularName(1), RegularName(2),
                               RegularName(3), RegularName(4)} |-> 0]
  /\ decrementPaused = FALSE
  /\ pauseTimers = 0
  /\ graceTimers = <<>>
  /\ effectsPending = FALSE
  /\ origin = [q \in {HighName(1), RegularName(1), RegularName(2),
                      RegularName(3), RegularName(4)} |-> <<>>]
  /\ last = NoLast

\* ------------------------------------------------------- task generation
\* ADD HP TASK / ADD RAN TASK / ADD NP TASK: setQueue(q => [...q, {value, type}])
AddTask(value, type) ==
  /\ ~effectsPending
  /\ Len(queue) < MaxQueue
  /\ Len(queue) + TotalPending < MaxTasks
  /\ queue' = Append(queue, [value |-> value, type |-> type])
  /\ last' = [NoLast EXCEPT !.op = "addTask"]
  /\ UNCHANGED <<highPriorityQueues, regularPriorityQueues, newlyCreatedQueues,
                 subQueues, progress, initialDuration, decrementPaused,
                 pauseTimers, graceTimers, effectsPending, origin>>

\* ------------------------------------------------------------- admission
\* mutant: every task is routed to the regular group
TargetGroupRegular(task) == regularPriorityQueues

\* if (task.type === 'high') ... else ...: the group the task is routed to
TargetGroup(task) ==
  IF task.type = "high" THEN highPriorityQueues ELSE regularPriorityQueues

\* mutant: <= in place of <, so that the last of the least-loaded queues wins
RECURSIVE MinScanLastWins(_, _, _, _)
MinScanLastWins(sq, group, i, best) ==
  IF i > Len(group) THEN best
  ELSE MinScanLastWins(sq, group, i + 1,
                       IF SumSeq(sq[group[i]]) <= SumSeq(sq[best]) THEN group[i] ELSE best)

\* forEach(name => { if (queueSum < minSum) { minQueue = name; minSum = queueSum } })
RECURSIVE MinScan(_, _, _, _)
MinScan(sq, group, i, best) ==
  IF i > Len(group) THEN best
  ELSE MinScan(sq, group, i + 1,
               IF SumSeq(sq[group[i]]) < SumSeq(sq[best]) THEN group[i] ELSE best)

\* mutant: queues in their grace window are passed over while a settled queue exists
MinQueueSettled(sq, group) ==
  LET settled == SelectSeq(group, LAMBDA q : q \notin newlyCreatedQueues)
  IN IF settled = <<>> THEN MinScan(sq, group, 1, group[1])
     ELSE MinScan(sq, settled, 1, settled[1])

\* let minQueue = group[0]; ...; the queue with the minimum sum of task values
MinQueue(sq, group) == MinScan(sq, group, 1, group[1])

\* mutant: the pause is started before the main queue is looked at
AdmitEmptyPauses ==
  /\ PendingTimers < MaxTimers
  /\ decrementPaused' = TRUE
  /\ pauseTimers' = pauseTimers + 1
  /\ UNCHANGED <<queue, highPriorityQueues, regularPriorityQueues, newlyCreatedQueues,
                 subQueues, progress, initialDuration, graceTimers, effectsPending, origin>>

\* if (queue.length === 0) return;
AdmitEmpty ==
  /\ UNCHANGED <<queue, highPriorityQueues, regularPriorityQueues, newlyCreatedQueues,
                 subQueues, progress, initialDuration, decrementPaused,
                 pauseTimers, graceTimers, effectsPending, origin>>

\* mutant: q.slice(0, -1), the newest task leaves the main queue
AdmitDequeueLast(q) == Front(q)

\* setQueue(q => q.slice(1))
AdmitDequeue(q) == Tail(q)

\* the body of admitTask for a non-empty main queue
AdmitHead ==
  LET task == queue[1]
      minQueue == MinQueue(subQueues, TargetGroup(task))
  IN /\ TotalPending < MaxPending
     /\ PendingTimers < MaxTimers
     /\ subQueues' = [subQueues EXCEPT ![minQueue] = Append(@, task.value)]
     /\ origin' = [origin EXCEPT ![minQueue] = Append(@, task.type)]
     /\ queue' = AdmitDequeue(queue)
     /\ decrementPaused' = TRUE
     /\ pauseTimers' = pauseTimers + 1
     /\ effectsPending' = TRUE
     /\ UNCHANGED <<highPriorityQueues, regularPriorityQueues, newlyCreatedQueues,
                    progress, initialDuration, graceTimers>>

admitTask ==
  /\ ~effectsPending
  /\ IF Len(queue) = 0
       THEN AdmitEmpty /\ last' = [NoLast EXCEPT !.op = "admitTask"]
       ELSE AdmitHead
            /\ last' = [NoLast EXCEPT !.op = "admitTask",
                                      !.target = MinQueue(subQueues, TargetGroup(queue[1]))]

\* mutant: the callback toggles the flag (setDecrementPaused(p => !p))
PauseTimerFireToggles ==
  /\ ~effectsPending
  /\ pauseTimers > 0
  /\ pauseTimers' = pauseTimers - 1
  /\ decrementPaused' = ~decrementPaused
  /\ last' = [NoLast EXCEPT !.op = "pauseTimer"]
  /\ UNCHANGED <<queue, highPriorityQueues, regularPriorityQueues, newlyCreatedQueues,
                 subQueues, progress, initialDuration, graceTimers, effectsPending, origin>>

\* setTimeout(() => setDecrementPaused(false), 500)
PauseTimerFire ==
  /\ ~effectsPending
  /\ pauseTimers > 0
  /\ pauseTimers' = pauseTimers - 1
  /\ decrementPaused' = FALSE
  /\ last' = [NoLast EXCEPT !.op = "pauseTimer"]
  /\ UNCHANGED <<queue, highPriorityQueues, regularPriorityQueues, newlyCreatedQueues,
                 subQueues, progress, initialDuration, graceTimers, effectsPending, origin>>

\* --------------------------------------------------------- progress clock
\* mutant: the decrement is left out (Math.max(0, prev[q]))
DecrementStepNone(p) == Max(0, p)

\* mutant: the rounding goes to whole units (Math.floor(prev[q] - 0.4))
DecrementStepWhole(p) == Max(0, ((p - Decrement) \div Scale) * Scale)

\* mutant: no Math.max(0, ..)
DecrementStepNoFloor(p) == p - Decrement

\* Math.max(0, Math.round((prev[q] - 0.4) * 100) / 100)
DecrementStep(p) == Max(0, p - Decrement)

\* mutant: the callback walks the high priority group only
TickProgressHighOnly(prev) ==
  [q \in DOMAIN prev |->
     IF q \in Range(highPriorityQueues)
       THEN IF Len(subQueues[q]) > 0 /\ prev[q] > 0 THEN DecrementStep(prev[q]) ELSE 0
       ELSE prev[q]]

\* the setProgress updater of the interval callback
TickProgress(prev) ==
  [q \in DOMAIN prev |->
     IF q \in Members
       THEN IF Len(subQueues[q]) > 0 /\ prev[q] > 0 THEN DecrementStep(prev[q]) ELSE 0
       ELSE prev[q]]

\* mutant: the interval survives the pause (no `if (decrementPaused) return`)
TickWhilePaused ==
  /\ ~effectsPending \/ JoinsTimer("graceTimer")
  /\ progress' = TickProgress(progress)
  /\ effectsPending' = TRUE
  /\ last' = [NoLast EXCEPT !.op = "tick", !.batched = effectsPending]
  /\ UNCHANGED <<queue, highPriorityQueues, regularPriorityQueues, newlyCreatedQueues,
                 subQueues, initialDuration, decrementPaused, pauseTimers, graceTimers,
                 origin>>

\* if (decrementPaused) return;  no interval exists, a period of the clock
\* passes without a callback
TickSkipped ==
  /\ ~effectsPending
  /\ last' = [NoLast EXCEPT !.op = "tickSkipped"]
  /\ UNCHANGED <<queue, highPriorityQueues, regularPriorityQueues, newlyCreatedQueues,
                 subQueues, progress, initialDuration, decrementPaused,
                 pauseTimers, graceTimers, effectsPending, origin>>

\* the callback of the interval: setProgress(prev => updated)
TickCallback ==
  /\ ~effectsPending \/ JoinsTimer("graceTimer")
  /\ progress' = TickProgress(progress)
  /\ effectsPending' = TRUE
  /\ last' = [NoLast EXCEPT !.op = "tick", !.batched = effectsPending]
  /\ UNCHANGED <<queue, highPriorityQueues, regularPriorityQueues, newlyCreatedQueues,
                 subQueues, initialDuration, decrementPaused, pauseTimers, graceTimers,
                 origin>>

\* one period (40 ms) of the progress clock: the interval exists only while
\* decrementPaused is false
Tick == IF decrementPaused THEN TickSkipped ELSE TickCallback

\* ------------------------------------------------- dynamic queue management
\* mutant: the new queue is not marked as newly created
AddQueueNoGrace(newQueueName) ==
  /\ PendingTimers < MaxTimers
  /\ subQueues' = With(subQueues, newQueueName, <<>>)
  /\ origin' = With(origin, newQueueName, <<>>)
  /\ progress' = With(progress, newQueueName, 0)
  /\ initialDuration' = With(initialDuration, newQueueName, 0)
  /\ graceTimers' = Append(graceTimers, newQueueName)
  /\ effectsPending' = TRUE
  /\ last' = [NoLast EXCEPT !.op = "addQueue", !.target = newQueueName]
  /\ UNCHANGED <<queue, decrementPaused, pauseTimers, newlyCreatedQueues>>

\* addHighPriorityQueue / addRegularPriorityQueue, for the group list `group`
\* and the new name `${prefix}${group.length + 1}`
AddQueue(newQueueName) ==
  /\ PendingTimers < MaxTimers
  /\ subQueues' = With(subQueues, newQueueName, <<>>)
  /\ origin' = With(origin, newQueueName, <<>>)
  /\ progress' = With(progress, newQueueName, 0)
  /\ initialDuration' = With(initialDuration, newQueueName, 0)
  /\ newlyCreatedQueues' = newlyCreatedQueues \cup {newQueueName}
  /\ graceTimers' = Append(graceTimers, newQueueName)
  /\ effectsPending' = TRUE
  /\ last' = [NoLast EXCEPT !.op = "addQueue", !.target = newQueueName]
  /\ UNCHANGED <<queue, decrementPaused, pauseTimers>>

addHighPriorityQueue ==
  /\ ~effectsPending
  /\ Len(highPriorityQueues) < MaxHigh
  /\ AddQueue(HighName(Len(highPriorityQueues) + 1))
  /\ highPriorityQueues' = Append(highPriorityQueues, HighName(Len(highPriorityQueues) + 1))
  /\ UNCHANGED regularPriorityQueues

addRegularPriorityQueue ==
  /\ ~effectsPending
  /\ Len(regularPriorityQueues) < MaxRegular
  /\ AddQueue(RegularName(Len(regularPriorityQueues) + 1))
  /\ regularPriorityQueues' = Append(regularPriorityQueues,
                                     RegularName(Len(regularPriorityQueues) + 1))
  /\ UNCHANGED highPriorityQueues

\* the setTimeout callback of the add handlers: newSet.delete(newQueueName)
GraceTimerFire ==
  /\ ~effectsPending \/ JoinsTimer("tick")
  /\ graceTimers # <<>>
  /\ newlyCreatedQueues' = newlyCreatedQueues \ {graceTimers[1]}
  /\ graceTimers' = Tail(graceTimers)
  /\ effectsPending' = TRUE
  /\ last' = [NoLast EXCEPT !.op = "graceTimer", !.target = graceTimers[1],
                            !.batched = effectsPending]
  /\ UNCHANGED <<queue, highPriorityQueues, regularPriorityQueues, subQueues, progress,
                 initialDuration, decrementPaused, pauseTimers, origin>>

\* mutant: the floor of one queue is not kept
CanRemoveLast(group) == Len(group) > 0

\* if (group.length <= 1) return;
CanRemove(group) == Len(group) > 1

\* const currentTask = progress[queueToRemove] > 0 ? progress[queueToRemove] : null
CurrentTask(q) == IF q \in DOMAIN progress /\ progress[q] > 0 THEN <<progress[q]>> ELSE <<>>

\* const tasksToRedistribute = subQueues[queueToRemove] || []
TasksToRedistribute(q) == IF q \in DOMAIN subQueues THEN subQueues[q] ELSE <<>>

\* allTasksToMove: the current task (if any), then every element of the removed queue
AllTasksToMove(q) == CurrentTask(q) \o TasksToRedistribute(q)

\* the types of allTasksToMove: the remainder carries the type of the task in flight
AllOriginsToMove(q) ==
  (IF CurrentTask(q) = <<>> THEN <<>>
   ELSE IF origin[q] = <<>> THEN <<"none">> ELSE <<origin[q][1]>>) \o origin[q]

\* mutant: no scan, the first remaining queue is the target
ShrinkTargetFirst(prev, group) == group[1]

\* targetQueue: the remaining queue of the group with the lowest sum
ShrinkTarget(prev, group) == MinQueue(prev, Front(group))

\* mutant: unshift in place of push, the moved values go in front of the target
ShrinkStorePrepends(prev, group, items) ==
  IF items # <<>>
    THEN Without([prev EXCEPT ![ShrinkTarget(prev, group)] = items \o @],
                 group[Len(group)])
    ELSE Without(prev, group[Len(group)])

\* the setSubQueues updater of the remove handlers
ShrinkStore(prev, group, items) ==
  IF items # <<>>
    THEN Without([prev EXCEPT ![ShrinkTarget(prev, group)] = @ \o items],
                 group[Len(group)])
    ELSE Without(prev, group[Len(group)])

\* removeHighPriorityQueue / removeRegularPriorityQueue on the group list `group`
RemoveQueue(group) ==
  LET queueToRemove == group[Len(group)]
      items == AllTasksToMove(queueToRemove)
  IN /\ TotalPending + Len(CurrentTask(queueToRemove)) <= MaxPending
     /\ subQueues' = ShrinkStore(subQueues, group, items)
     /\ origin' = IF items # <<>>
                    THEN Without([origin EXCEPT ![ShrinkTarget(subQueues, group)] =
                                     @ \o AllOriginsToMove(queueToRemove)], queueToRemove)
                    ELSE Without(origin, queueToRemove)
     /\ progress' = Without(progress, queueToRemove)
     /\ initialDuration' = Without(initialDuration, queueToRemove)
     /\ newlyCreatedQueues' = newlyCreatedQueues \ {queueToRemove}
     /\ effectsPending' = TRUE
     /\ last' = [NoLast EXCEPT !.op = "removeQueue",
                   !.target = IF items # <<>> THEN ShrinkTarget(subQueues, group) ELSE <<>>,
                   !.moved = items,
                   !.removed = queueToRemove]
     /\ UNCHANGED <<queue, decrementPaused, pauseTimers, graceTimers>>

RemoveNothing ==
  /\ UNCHANGED <<queue, highPriorityQueues, regularPriorityQueues, newlyCreatedQueues,
                 subQueues, progress, initialDuration, decrementPaused,
                 pauseTimers, graceTimers, effectsPending, origin>>
  /\ last' = [NoLast EXCEPT !.op = "removeNothing"]

removeHighPriorityQueue ==
  /\ ~effectsPending
  /\ IF CanRemove(highPriorityQueues)
       THEN /\ RemoveQueue(highPriorityQueues)
            /\ highPriorityQueues' = Front(highPriorityQueues)
            /\ UNCHANGED regularPriorityQueues
       ELSE RemoveNothing

removeRegularPriorityQueue ==
  /\ ~effectsPending
  /\ IF CanRemove(regularPriorityQueues)
       THEN /\ RemoveQueue(regularPriorityQueues)
            /\ regularPriorityQueues' = Front(regularPriorityQueues)
            /\ UNCHANGED highPriorityQueues
       ELSE RemoveNothing

\* ------------------------------------------------------------------ effects
\* mutant: the guard without `initialDuration[q] > 0`
CompletionGuardNoInit(q) == Len(subQueues[q]) > 0 /\ progress[q] = 0

\* mutant: `initialDuration[q] >= 0`, a head of value 0 counts as finished
CompletionGuardAnyDuration(q) ==
  Len(subQueues[q]) > 0 /\ progress[q] = 0 /\ initialDuration[q] >= 0

\* task completion effect: the guard, read from the committed snapshot
CompletionGuard(q) ==
  Len(subQueues[q]) > 0 /\ progress[q] = 0 /\ initialDuration[q] > 0

\* mutant: the guard without `initialDuration[q] === 0`
InitGuardNoDuration(q) == Len(subQueues[q]) > 0 /\ progress[q] = 0

\* new task initialization effect: the guard, read from the committed snapshot
InitGuard(q) ==
  Len(subQueues[q]) > 0 /\ (progress[q] = 0 /\ initialDuration[q] = 0)

CompleteSet == {q \in Members : CompletionGuard(q)}

InitSet == {q \in Members : InitGuard(q)}

\* sq[q].slice(1)
Slice1(s) == IF s = <<>> THEN <<>> ELSE Tail(s)

\* the setSubQueues updaters of the completion effect, applied in turn
CompleteStore(prev) ==
  [q \in DOMAIN prev |-> IF q \in CompleteSet THEN Slice1(prev[q]) ELSE prev[q]]

\* mutant: a newly created queue counts as idle
IsIdleInGrace(q) ==
  Len(subQueues[q]) = 0 /\ progress[q] = 0 /\ initialDuration[q] = 0

\* mutant: a queue counts as idle without being empty
IsIdleNotEmpty(q) ==
  /\ progress[q] = 0 /\ initialDuration[q] = 0
  /\ q \notin newlyCreatedQueues

\* idleQueues of redistributeTasks
IsIdle(q) ==
  /\ Len(subQueues[q]) = 0 /\ progress[q] = 0 /\ initialDuration[q] = 0
  /\ q \notin newlyCreatedQueues

IdleQueues(queueGroup) == SelectSeq(queueGroup, IsIdle)

\* busyQueues of redistributeTasks
IsBusy(q) == Len(subQueues[q]) > 1 /\ q \notin newlyCreatedQueues

BusyQueues(queueGroup) == SelectSeq(queueGroup, IsBusy)

\* busyQueues.forEach(q => { if (queueSum > maxSum) { busiestQueue = q; maxSum = queueSum } })
RECURSIVE MaxScan(_, _, _)
MaxScan(busy, i, best) ==
  IF i > Len(busy) THEN best
  ELSE MaxScan(busy, i + 1,
               IF SumSeq(subQueues[busy[i]]) > SumSeq(subQueues[best]) THEN busy[i] ELSE best)

BusiestQueue(queueGroup) == MaxScan(BusyQueues(queueGroup), 1, BusyQueues(queueGroup)[1])

\* the conditions under which redistributeTasks calls setSubQueues
StealGuard(queueGroup) ==
  /\ Len(IdleQueues(queueGroup)) > 0 /\ Len(BusyQueues(queueGroup)) > 0
  /\ Len(subQueues[BusiestQueue(queueGroup)]) > 1
  /\ SumSeq(subQueues[BusiestQueue(queueGroup)]) > 0

\* the moves the load balancing effect asks for: at most one per group
Steals(queueGroup) ==
  IF StealGuard(queueGroup)
    THEN {[from |-> BusiestQueue(queueGroup), to |-> IdleQueues(queueGroup)[1]]}
    ELSE {}

\* mutant: shift() in place of pop(), the head of the busiest queue is moved
StealStoreShift(prev, moves) ==
  [q \in DOMAIN prev |->
     IF \E m \in moves : m.from = q /\ prev[q] # <<>> THEN Tail(prev[q])
     ELSE IF \E m \in moves : m.to = q /\ prev[m.from] # <<>>
       THEN LET m == CHOOSE x \in moves : x.to = q
            IN <<prev[m.from][1]>> \o prev[q]
     ELSE prev[q]]

\* mutant: the popped task is not put into the idle queue
StealStoreDrops(prev, moves) ==
  [q \in DOMAIN prev |->
     IF \E m \in moves : m.from = q /\ prev[q] # <<>> THEN Front(prev[q])
     ELSE prev[q]]

\* mutant: the last task is read without pop(), the donor keeps it
StealStoreCopies(prev, moves) ==
  [q \in DOMAIN prev |->
     IF \E m \in moves : m.to = q /\ prev[m.from] # <<>>
       THEN LET m == CHOOSE x \in moves : x.to = q
            IN <<prev[m.from][Len(prev[m.from])]>> \o prev[q]
     ELSE prev[q]]

\* the setSubQueues updater of redistributeTasks:
\* taskToMove = newQueues[busiestQueue].pop(); if defined, put in front of idleQueue
StealStore(prev, moves) ==
  [q \in DOMAIN prev |->
     IF \E m \in moves : m.from = q /\ prev[q] # <<>> THEN Front(prev[q])
     ELSE IF \E m \in moves : m.to = q /\ prev[m.from] # <<>>
       THEN LET m == CHOOSE x \in moves : x.to = q
            IN <<prev[m.from][Len(prev[m.from])]>> \o prev[q]
     ELSE prev[q]]

\* the updaters of one pass in the order the effects queue them: completion
\* effect, load balancing effect (high group, then regular group)
EffectsStore(prev) ==
  StealStore(StealStore(CompleteStore(prev), Steals(highPriorityQueues)),
             Steals(regularPriorityQueues))

\* mutant: a completion leaves initialDuration as it is
EffectsInitialDurationKept(prev) ==
  [q \in DOMAIN prev |-> IF q \in InitSet THEN subQueues[q][1] ELSE prev[q]]

\* setInitialDuration: completion resets to 0, initialization records the head
EffectsInitialDuration(prev) ==
  [q \in DOMAIN prev |->
     IF q \in CompleteSet THEN 0
     ELSE IF q \in InitSet THEN subQueues[q][1]
     ELSE prev[q]]

\* setProgress of the initialization effect
EffectsProgress(prev) ==
  [q \in DOMAIN prev |-> IF q \in InitSet THEN subQueues[q][1] ELSE prev[q]]

\* One pass of the effects over a committed snapshot.  A pass whose updaters
\* write back the values already there (a head of value 0 being initialized)
\* re-renders without end; handlers still run between such passes, so it is
\* not counted as pending.
RunEffects ==
  /\ effectsPending
  /\ subQueues' = EffectsStore(subQueues)
  /\ origin' = EffectsStore(origin)
  /\ initialDuration' = EffectsInitialDuration(initialDuration)
  /\ progress' = EffectsProgress(progress)
  /\ effectsPending' = (<<subQueues', progress', initialDuration'>>
                          # <<subQueues, progress, initialDuration>>)
  /\ last' = [NoLast EXCEPT !.op = "effects",
                            !.completed = CompleteSet,
                            !.steals = Steals(highPriorityQueues)
                                         \cup Steals(regularPriorityQueues)]
  /\ UNCHANGED <<queue, highPriorityQueues, regularPriorityQueues, newlyCreatedQueues,
                 decrementPaused, pauseTimers, graceTimers>>

\* ---------------------------------------------------------- specification
Next ==
  \/ \E value \in TaskValues, type \in TaskTypes : AddTask(value, type)
  \/ admitTask
  \/ PauseTimerFire
  \/ Tick
  \/ addHighPriorityQueue
  \/ removeHighPriorityQueue
  \/ addRegularPriorityQueue
  \/ removeRegularPriorityQueue
  \/ GraceTimerFire
  \/ RunEffects

Spec == Init /\ [][Next]_vars

\* the same operations with the buttons that start a timeout not pressed while
\* LiveTimers timeouts are outstanding: pause and grace windows do not overlap
NextSerial ==
  \/ \E value \in TaskValues, type \in TaskTypes : AddTask(value, type)
  \/ admitTask /\ PendingTimers' <= LiveTimers
  \/ PauseTimerFire
  \/ Tick
  \/ addHighPriorityQueue /\ PendingTimers' <= LiveTimers
  \/ removeHighPriorityQueue
  \/ addRegularPriorityQueue /\ PendingTimers' <= LiveTimers
  \/ removeRegularPriorityQueue
  \/ GraceTimerFire
  \/ RunEffects

SpecSerial == Init /\ [][NextSerial]_vars

\* the operations with the regular group left at its initial queues: the high
\* priority group is grown and shrunk, and up to MaxTimers timeouts overlap
NextOverlap ==
  \/ \E value \in TaskValues, type \in TaskTypes : AddTask(value, type)
  \/ admitTask
  \/ PauseTimerFire
  \/ Tick
  \/ addHighPriorityQueue
  \/ removeHighPriorityQueue
  \/ GraceTimerFire
  \/ RunEffects

SpecOverlap == Init /\ [][NextOverlap]_vars

\* ------------------------------------------------------------------ claims
\* sum of the pending values the queues of `group` hold in the store sq
RECURSIVE SumOver(_, _)
SumOver(sq, group) ==
  IF group = <<>> THEN 0 ELSE SumSeq(sq[group[1]]) + SumOver(sq, Tail(group))

GroupOf(q) == IF q[1] = "high" THEN highPriorityQueues ELSE regularPriorityQueues

\* the work a queue holds, its head counted by what remains of it
Outstanding(q) ==
  IF progress[q] > 0 /\ subQueues[q] # <<>>
    THEN progress[q] + SumSeq(Tail(subQueues[q]))
    ELSE SumSeq(subQueues[q])

\* C1: a shrink conserves the group's outstanding work: the pending total of
\* the group after the shrink equals the pending total of the remaining queues
\* before it plus the outstanding work of the removed queue (its head counted
\* by its progress).
C1_ShrinkConserves ==
  [][last'.op = "removeQueue" =>
       LET r == last'.removed
           group == GroupOf(r)
       IN SumOver(subQueues', Front(group))
            = SumOver(subQueues, Front(group)) + Outstanding(r)]_vars

\* C2: after a rebalance move has been applied, the donor queue still holds at
\* least one task.
C2_DonorKeepsATask ==
  last.op = "effects" => \A m \in last.steals : Len(subQueues[m.from]) >= 1

\* a pass that stole from a queue whose head it also completed
C2_Emptied ==
  /\ last.op = "effects"
  /\ \E m \in last.steals : m.from \in last.completed /\ subQueues[m.from] = <<>>

\* C3: 0 <= progress <= initialDuration for every queue of both groups.
C3_BoundedProgress ==
  \A q \in Members : 0 <= progress[q] /\ progress[q] <= initialDuration[q]

C3_Witness ==
  \E q \in Members : 0 < progress[q] /\ progress[q] < initialDuration[q]

\* C4: each of the two groups contains at least one queue.
C4_GroupFloor ==
  Len(highPriorityQueues) >= 1 /\ Len(regularPriorityQueues) >= 1

C4_Witness ==
  /\ last.op = "removeNothing"
  /\ Len(highPriorityQueues) = 1 /\ Len(regularPriorityQueues) = 1

C6_PriorityIsolation ==
  /\ \A q \in Range(highPriorityQueues) :
       Len(origin[q]) = Len(subQueues[q]) /\ \A i \in 1..Len(origin[q]) : origin[q][i] = "high"
  /\ \A q \in Range(regularPriorityQueues) :
       Len(origin[q]) = Len(subQueues[q]) /\ \A i \in 1..Len(origin[q]) : origin[q][i] = "normal"

\* a rebalance move in one group while the other group holds a value too
C6_Witness ==
  /\ last.op = "effects"
  /\ \E m \in last.steals :
       /\ subQueues[m.to] # <<>>
       /\ \E q \in Members : q[1] # m.to[1] /\ subQueues[q] # <<>>

\* C7: admit on an empty main queue changes nothing and starts no pause.
C7_AdmitEmptyNoOp ==
  [][(last'.op = "admitTask" /\ queue = <<>>) =>
       UNCHANGED <<progVars, timerVars, effectsPending>>]_vars

C7_Witness ==
  last.op = "admitTask" /\ last.target = <<>> /\ queue = <<>> /\ ~decrementPaused

\* C8: the main queue is FIFO: adding a task appends it at the tail; admit
\* removes exactly the head and appends exactly its value to exactly one queue.
C8_IntakeFifo ==
  [][/\ last'.op = "addTask" =>
          Len(queue') = Len(queue) + 1 /\ SubSeq(queue', 1, Len(queue)) = queue
     /\ (last'.op = "admitTask" /\ queue # <<>>) =>
          /\ queue' = Tail(queue)
          /\ TotalPending' = TotalPending + 1
          /\ \E t \in DOMAIN subQueues :
               /\ subQueues'[t] = Append(subQueues[t], queue[1].value)
               /\ \A q \in DOMAIN subQueues \ {t} : subQueues'[q] = subQueues[q]]_vars

\* an admit that left the second of two different tasks in the main queue
C8_Witness ==
  /\ last.op = "admitTask" /\ last.target # <<>>
  /\ Len(queue) = 1 /\ queue[1].value # subQueues[last.target][Len(subQueues[last.target])]

\* what a step keeps of a queue: completion takes the head, a steal the last
Retained(old, completes, donates) ==
  SubSeq(old, IF completes THEN 2 ELSE 1, IF donates THEN Len(old) - 1 ELSE Len(old))

\* C9: a queue is FIFO: a completion removes the head, and whatever a step adds
\* to a queue comes behind everything the queue keeps, so values are completed
\* in the order they entered.
C9_QueueFifo ==
  [][\A q \in (DOMAIN subQueues) \cap (DOMAIN subQueues') :
       LET kept == Retained(subQueues[q],
                            last'.op = "effects" /\ q \in last'.completed,
                            last'.op = "effects" /\ \E m \in last'.steals : m.from = q)
       IN /\ Len(subQueues'[q]) >= Len(kept)
          /\ SubSeq(subQueues'[q], 1, Len(kept)) = kept]_vars

\* a completion in a queue that holds a later value behind the completed one
C9_Witness ==
  /\ last.op = "effects"
  /\ \E q \in last.completed : q \in Members /\ subQueues[q] # <<>>

\* C10: a queue with pending, progress 0 and initialDuration > 0 loses exactly
\* its head to the completion detector, and its initialDuration is reset to 0,
\* so that the same zero-crossing completes nothing more; a queue that is not
\* in this case loses nothing at its front.
C10_SingleCompletion ==
  [][last'.op = "effects" =>
       \A q \in Members :
         LET donates == \E m \in last'.steals : m.from = q
         IN IF Len(subQueues[q]) > 0 /\ progress[q] = 0 /\ initialDuration[q] > 0
              THEN /\ subQueues'[q] = Retained(subQueues[q], TRUE, donates)
                   /\ initialDuration'[q] = 0
              ELSE /\ Len(subQueues'[q]) >= Len(subQueues[q]) - (IF donates THEN 1 ELSE 0)
                   /\ subQueues[q] # <<>> =>
                        subQueues'[q] # <<>> /\ subQueues'[q][1] = subQueues[q][1]]_vars

\* a completion in a queue that held two values: one is left
C10_Witness ==
  /\ last.op = "effects"
  /\ \E q \in last.completed : q \in Members /\ Len(subQueues[q]) = 1
                               /\ initialDuration[q] = 0

\* C11: while the admission pause is active no step lowers the progress of any
\* queue of either group, whichever queue received the task, and the effects
\* are not held back: a pass that runs during the pause initializes every head
\* that waits with progress 0 and initialDuration 0.
C11_PauseFreezesAll ==
  [][decrementPaused =>
       /\ \A q \in Members \cap Members' : progress'[q] >= progress[q]
       /\ last'.op = "effects" =>
            \A q \in Members :
              (Len(subQueues[q]) > 0 /\ progress[q] = 0 /\ initialDuration[q] = 0) =>
                 progress'[q] = subQueues[q][1] /\ initialDuration'[q] = subQueues[q][1]]_vars

\* during a pause a pass has initialized one queue while another queue is held
\* part-way through its task
C11_Witness ==
  /\ decrementPaused /\ last.op = "effects"
  /\ \E q, r \in Members :
       /\ q # r
       /\ 0 < progress[q] /\ progress[q] < initialDuration[q]
       /\ 0 < progress[r] /\ progress[r] = initialDuration[r]

\* C13: a shrink of a group of at least two queues removes the last queue of
\* the group and appends to the least-loaded remaining queue (the first in group
\* order among equals) exactly the removed queue's progress, when it is in
\* flight, followed by its waiting values, the pending values behind the head in
\* flight, in their order: the head's original duration is not appended as well.
C13_ShrinkAppends ==
  [][last'.op = "removeQueue" =>
       LET r == last'.removed
           group == GroupOf(r)
           rest == Front(group)
           waiting == IF progress[r] > 0 /\ subQueues[r] # <<>>
                        THEN Tail(subQueues[r]) ELSE subQueues[r]
           items == (IF progress[r] > 0 THEN <<progress[r]>> ELSE <<>>) \o waiting
       IN /\ Len(group) >= 2 /\ group[Len(group)] = r
          /\ \E i \in 1..Len(rest) :
               /\ subQueues'[rest[i]] = subQueues[rest[i]] \o items
               /\ \A j \in 1..Len(rest) :
                    /\ SumSeq(subQueues[rest[j]]) >= SumSeq(subQueues[rest[i]])
                    /\ j < i => SumSeq(subQueues[rest[j]]) > SumSeq(subQueues[rest[i]])]_vars

\* C14: a shrink of a group of exactly one queue changes nothing: the group
\* lists, every queue's pending, progress and initialDuration, the grace set, the
\* main queue and the pause flag stay as they are.
C14_ShrinkFloorNoOp ==
  [][last'.op \in {"removeNothing", "removeQueue"} =>
       /\ Len(highPriorityQueues) = 1 => highPriorityQueues' = highPriorityQueues
       /\ Len(regularPriorityQueues) = 1 => regularPriorityQueues' = regularPriorityQueues
       /\ last'.op = "removeNothing" =>
            /\ Len(highPriorityQueues) = 1 \/ Len(regularPriorityQueues) = 1
            /\ UNCHANGED <<progVars, timerVars, effectsPending>>]_vars

\* the remove button of the high group was used on its only queue, which is at
\* work on a task (the regular group could have been shrunk)
C14_Witness ==
  /\ last.op = "removeNothing"
  /\ Len(highPriorityQueues) = 1 /\ Len(regularPriorityQueues) > 1
  /\ 0 < progress[HighName(1)] /\ progress[HighName(1)] < initialDuration[HighName(1)]

\* C15: after a shrink that removes queue r nothing of r is left: r is in no
\* group list, has no entry in the pending store, in progress, in
\* initialDuration, and is not in the grace set; the lists keep their other
\* members, progress and initialDuration keep every other entry, and the pending
\* of every queue but the redistribution target is unchanged.
C15_ShrinkFrame ==
  [][last'.op = "removeQueue" =>
       LET r == last'.removed
           group == GroupOf(r)
       IN /\ r \notin Members'
          /\ DOMAIN subQueues' = DOMAIN subQueues \ {r}
          /\ DOMAIN progress' = DOMAIN progress \ {r}
          /\ DOMAIN initialDuration' = DOMAIN initialDuration \ {r}
          /\ newlyCreatedQueues' = newlyCreatedQueues \ {r}
          /\ AllQueues' = SelectSeq(AllQueues, LAMBDA q : q # r)
          /\ \A q \in DOMAIN progress' : progress'[q] = progress[q]
          /\ \A q \in DOMAIN initialDuration' : initialDuration'[q] = initialDuration[q]
          /\ \E t \in Range(Front(group)) :
               \A q \in DOMAIN subQueues' \ {t} : subQueues'[q] = subQueues[q]]_vars

\* a queue was removed during its grace window (its timeout is still to come)
\* and handed values over
C15_Witness ==
  /\ last.op = "removeQueue" /\ last.moved # <<>>
  /\ last.removed \in Range(graceTimers)
  /\ last.removed \notin DOMAIN subQueues

\* C16: a grow appends exactly one new name at the end of the list of its group,
\* with empty pending and progress = initialDuration = 0, and puts it in the
\* grace set; the list of the other group and the pending, progress and
\* initialDuration of the queues that exist are unchanged.
C16_GrowFrame ==
  [][last'.op = "addQueue" =>
       LET n == last'.target
       IN /\ n \notin Members
          /\ \/ highPriorityQueues' = Append(highPriorityQueues, n)
                  /\ regularPriorityQueues' = regularPriorityQueues
             \/ regularPriorityQueues' = Append(regularPriorityQueues, n)
                  /\ highPriorityQueues' = highPriorityQueues
          /\ subQueues'[n] = <<>> /\ progress'[n] = 0 /\ initialDuration'[n] = 0
          /\ newlyCreatedQueues' = newlyCreatedQueues \cup {n}
          /\ \A q \in Members :
               /\ subQueues'[q] = subQueues[q]
               /\ progress'[q] = progress[q]
               /\ initialDuration'[q] = initialDuration[q]]_vars

\* a queue was grown next to a queue that is part-way through a task
C16_Witness ==
  /\ last.op = "addQueue" /\ last.target \in newlyCreatedQueues
  /\ subQueues[last.target] = <<>>
  /\ \E q \in Members : 0 < progress[q] /\ progress[q] < initialDuration[q]

\* C12: every admit keeps decrementing disabled for its whole pause window: as
\* long as the timeout of some admit has not fired the pause flag is set (the
\* timeouts have one delay, so the ones still pending are those of the latest
\* admits); no timeout ends the window of a later admit.
C12_PauseWindowFull ==
  pauseTimers > 0 => decrementPaused

C18_GraceWindowFull ==
  \A q \in Members : q \in Range(graceTimers) => q \in newlyCreatedQueues

\* the values a pass leaves in the queues of a group, by the claim: the
\* completion effect takes the heads it finds at 0, and one value moves from
\* the end of the busiest queue to the front of the first idle queue when the
\* group has an idle queue and a busy queue with a pending sum above 0
C19_Expected(group, q) ==
  LET idle == SelectSeq(group, LAMBDA x :
                 /\ subQueues[x] = <<>> /\ progress[x] = 0 /\ initialDuration[x] = 0
                 /\ x \notin newlyCreatedQueues)
      busy == SelectSeq(group, LAMBDA x :
                 Len(subQueues[x]) > 1 /\ x \notin newlyCreatedQueues)
      moves == idle # <<>> /\ \E i \in 1..Len(busy) : SumSeq(subQueues[busy[i]]) > 0
      b == busy[CHOOSE i \in 1..Len(busy) :
                  \A j \in 1..Len(busy) :
                    /\ SumSeq(subQueues[busy[j]]) <= SumSeq(subQueues[busy[i]])
                    /\ j < i => SumSeq(subQueues[busy[j]]) < SumSeq(subQueues[busy[i]])]
      completes == Len(subQueues[q]) > 0 /\ progress[q] = 0 /\ initialDuration[q] > 0
  IN IF moves /\ q = idle[1] THEN <<subQueues[b][Len(subQueues[b])]>>
     ELSE Retained(subQueues[q], completes, moves /\ q = b)

C20_CompletionAfterInit ==
  [][/\ last'.op = "effects" =>
          /\ \A q \in last'.completed :
               /\ subQueues[q] # <<>> /\ progress[q] = 0
               /\ initialDuration[q] > 0 /\ initialDuration[q] = subQueues[q][1]
          /\ \A m \in last'.steals : m.to \notin last'.completed
     /\ \A q \in Members \cap Members' :
          /\ (initialDuration'[q] > 0 /\ initialDuration'[q] # initialDuration[q]) =>
               /\ last'.op = "effects" /\ initialDuration[q] = 0 /\ progress[q] = 0
               /\ subQueues[q] # <<>> /\ initialDuration'[q] = subQueues[q][1]
               /\ progress'[q] = initialDuration'[q]
          /\ (initialDuration[q] > 0 /\ initialDuration'[q] = initialDuration[q]) =>
               /\ subQueues'[q] # <<>> /\ subQueues'[q][1] = initialDuration[q]
               /\ progress'[q] # progress[q] =>
                    last'.op = "tick" /\ progress'[q] < progress[q]
          /\ last'.op \in {"admitTask", "removeQueue", "addQueue", "addTask"} =>
               /\ Len(subQueues'[q]) >= Len(subQueues[q])
               /\ SubSeq(subQueues'[q], 1, Len(subQueues[q])) = subQueues[q]]_vars

\* a queue has completed the only value it held and is empty and reset
C20_Witness ==
  /\ last.op = "effects"
  /\ \E q \in last.completed :
       /\ q \in Members /\ subQueues[q] = <<>>
       /\ progress[q] = 0 /\ initialDuration[q] = 0

\* C21: a pass of the effects sets progress and initialDuration of every queue
\* with pending, progress 0 and initialDuration 0 to the value of its head, which
\* is still its head after the pass; the initializer leaves a queue with a
\* progress or initialDuration other than 0 alone: its progress is unchanged and
\* its initialDuration changes only by the reset of the completion effect.
C21_Initialization ==
  [][last'.op = "effects" =>
       \A q \in Members :
         IF Len(subQueues[q]) > 0 /\ progress[q] = 0 /\ initialDuration[q] = 0
           THEN /\ progress'[q] = subQueues[q][1]
                /\ initialDuration'[q] = subQueues[q][1]
                /\ subQueues'[q] # <<>> /\ subQueues'[q][1] = subQueues[q][1]
           ELSE /\ progress'[q] = progress[q]
                /\ initialDuration'[q] = initialDuration[q]
                     \/ /\ initialDuration'[q] = 0
                        /\ Len(subQueues[q]) > 0 /\ progress[q] = 0]_vars

\* with the clock running, one queue stands at the full duration of its head
\* next to a queue that is part-way through its task
C21_Witness ==
  /\ ~decrementPaused
  /\ \E q, r \in Members :
       /\ q # r /\ subQueues[q] # <<>>
       /\ progress[q] = subQueues[q][1] /\ initialDuration[q] = subQueues[q][1]
       /\ progress[q] > 0
       /\ 0 < progress[r] /\ progress[r] < initialDuration[r]

\* C22 as stated: at each period of the progress clock the progress of every
\* queue of both groups is set to 0 if the pause is active, the queue is empty
\* or its progress is 0, and to max(0, progress - 0.4) otherwise; pending,
\* initialDuration, the group lists and the main queue are unchanged.
C22_TickAsStated ==
  [][last'.op \in {"tick", "tickSkipped"} =>
       /\ \A q \in Members :
            progress'[q] =
              IF decrementPaused \/ subQueues[q] = <<>> \/ progress[q] = 0
                THEN 0 ELSE Max(0, progress[q] - Decrement)
       /\ UNCHANGED <<subQueues, initialDuration, highPriorityQueues,
                      regularPriorityQueues, queue>>]_vars

\* C22 amended: while the pause is active a period of the clock changes
\* nothing, progress included; otherwise the progress of every queue of both
\* groups is set to 0 if the queue is empty or its progress is 0, and to
\* max(0, progress - 0.4) if not; pending, initialDuration, the group lists and
\* the main queue are unchanged.
C22_Tick ==
  [][last'.op \in {"tick", "tickSkipped"} =>
       /\ \A q \in Members :
            progress'[q] =
              IF decrementPaused THEN progress[q]
              ELSE IF subQueues[q] = <<>> \/ progress[q] = 0
                THEN 0 ELSE Max(0, progress[q] - Decrement)
       /\ (last'.op = "tickSkipped") = decrementPaused
       /\ UNCHANGED <<subQueues, initialDuration, highPriorityQueues,
                      regularPriorityQueues, queue>>]_vars

\* one tick has brought a queue to 0 and another queue part of its way
C22_Witness ==
  /\ last.op = "tick"
  /\ \E q, r \in Members :
       /\ 0 < progress[q] /\ progress[q] < initialDuration[q]
       /\ progress[r] = 0 /\ initialDuration[r] > 0

\* unpaused ticks a head with remaining progress p needs to reach 0: ceil(p / 0.4)
TicksLeft(p) == (p + Decrement - 1) \div Decrement

\* C23: a head initialized with duration v > 0 starts at progress v, that is
\* with ceil(v / 0.4) ticks to go; every tick of the callback takes exactly one
\* tick off what is left and no other step changes the progress of a task in
\* flight, so that progress is 0 after exactly ceil(v / 0.4) unpaused ticks and
\* not before; progress is never below 0; and a head at progress 0 is removed by
\* the pass of the effects that follows that tick.
C23_TicksToZero ==
  [][\A q \in Members \cap Members' :
       /\ progress[q] >= 0 /\ progress'[q] >= 0
       /\ (last'.op = "effects" /\ subQueues[q] # <<>>
             /\ progress[q] = 0 /\ initialDuration[q] = 0) =>
            TicksLeft(progress'[q]) = TicksLeft(subQueues[q][1])
       /\ (last'.op = "tick" /\ subQueues[q] # <<>> /\ progress[q] > 0) =>
            TicksLeft(progress'[q]) = TicksLeft(progress[q]) - 1
       /\ (last'.op # "tick" /\ subQueues[q] # <<>> /\ progress[q] > 0) =>
            progress'[q] = progress[q]
       /\ (subQueues[q] # <<>> /\ progress[q] = 0 /\ initialDuration[q] > 0) =>
            /\ last'.op \in {"effects", "graceTimer"}
            /\ last'.op = "effects" =>
                 /\ Len(subQueues'[q]) < Len(subQueues[q])
                 /\ initialDuration'[q] = 0]_vars

\* a head of one duration unit has reached 0 by a tick and waits for the pass
\* that removes it
C23_Witness ==
  /\ last.op = "tick" /\ effectsPending
  /\ \E q \in Members :
       /\ subQueues[q] # <<>> /\ subQueues[q][1] = Scale
       /\ initialDuration[q] = Scale /\ progress[q] = 0

\* the load of a queue with its head in flight counted by what remains of it
ProgressLoad(q) ==
  IF subQueues[q] # <<>> /\ initialDuration[q] > 0
    THEN progress[q] + SumSeq(Tail(subQueues[q]))
    ELSE SumSeq(subQueues[q])

\* the load of a queue as the sum of the values its pending sequence holds
SumLoad(q) == SumSeq(subQueues[q])

\* the first queue of `group` that no queue of the group undercuts
FirstLeast(L(_), group) ==
  group[CHOOSE i \in 1..Len(group) :
          \A j \in 1..Len(group) : IF j < i THEN L(group[j]) > L(group[i])
                                            ELSE L(group[j]) >= L(group[i])]

\* the first queue of `group` that no queue of the group exceeds
FirstMost(L(_), group) ==
  group[CHOOSE i \in 1..Len(group) :
          \A j \in 1..Len(group) : IF j < i THEN L(group[j]) < L(group[i])
                                            ELSE L(group[j]) <= L(group[i])]

\* the queues a shrink and a rebalance pass choose are those the load L selects
ChoosesBy(L(_)) ==
  /\ (last'.op = "removeQueue" /\ last'.moved # <<>>)
       => last'.target = FirstLeast(L, Front(GroupOf(last'.removed)))
  /\ last'.op = "effects"
       => \A m \in last'.steals : m.from = FirstMost(L, BusyQueues(GroupOf(m.from)))

C25_MembersHaveEntries ==
  Members \subseteq (DOMAIN subQueues \cap DOMAIN progress \cap DOMAIN initialDuration)

\* a queue name that was removed has been added again, while the grace timeout
\* of its first life is still pending, and has its three entries
C25_Witness ==
  /\ last.op = "addQueue"
  /\ Len(graceTimers) = 2 /\ graceTimers[1] = graceTimers[2]
  /\ last.target = graceTimers[2]
  /\ last.target \in Members
  /\ last.target \in DOMAIN subQueues \cap DOMAIN progress \cap DOMAIN initialDuration

\* a queue with a recorded initialDuration holds the task it was recorded for
HeadInFlight(q) ==
  initialDuration[q] > 0 => subQueues[q] # <<>> /\ initialDuration[q] = subQueues[q][1]

\* the shorter of the sequences s and t is a non-empty prefix of the other
SharesHead(s, t) ==
  LET k == IF Len(s) <= Len(t) THEN Len(s) ELSE Len(t)
  IN k >= 1 /\ SubSeq(s, 1, k) = SubSeq(t, 1, k)

\* C26: a queue with initialDuration > 0 has a non-empty pending sequence whose
\* head is the value initialDuration records; an admit, a shrink redistribution
\* and a steal (a pass in which the queue does not complete) leave the head of
\* such a queue in place, with nothing put before it; and after a period of the
\* progress clock an empty queue has progress = initialDuration = 0.
C26_HeadInFlight ==
  [][/\ \A q \in Members : HeadInFlight(q)
     /\ \A q \in Members' : HeadInFlight(q)'
     /\ \A q \in Members \cap Members' :
          (/\ initialDuration[q] > 0
           /\ \/ last'.op \in {"admitTask", "removeQueue"}
              \/ last'.op = "effects" /\ q \notin last'.completed)
            => SharesHead(subQueues[q], subQueues'[q])
     /\ last'.op \in {"tick", "tickSkipped"}
          => \A q \in Members' :
               subQueues'[q] = <<>> => progress'[q] = 0 /\ initialDuration'[q] = 0]_vars

\* a shrink has appended the tasks of the removed queue behind the head in
\* flight of the target
C26_Witness ==
  /\ last.op = "removeQueue" /\ last.moved # <<>>
  /\ initialDuration[last.target] > 0
  /\ 0 < progress[last.target] /\ progress[last.target] < initialDuration[last.target]
  /\ Len(subQueues[last.target]) > Len(last.moved)
  /\ subQueues[last.target][1] = initialDuration[last.target]

\* the head of q is a task of value 0
ZeroHead(q) == subQueues[q] # <<>> /\ subQueues[q][1] = 0

\* C27: a queue whose head is a task of value 0 has progress = initialDuration
\* = 0; no pass completes it, and as long as the queue is not removed by a
\* shrink the task stays at its head with nothing put before it, so that the
\* queue starts no task.
C27_ZeroHeadStays ==
  [][\A q \in Members :
       ZeroHead(q) =>
         /\ progress[q] = 0 /\ initialDuration[q] = 0
         /\ last'.op = "effects" => q \notin last'.completed
         /\ IF q \in Members'
              THEN /\ ZeroHead(q)'
                   /\ SharesHead(subQueues[q], subQueues'[q])
                   /\ progress'[q] = 0 /\ initialDuration'[q] = 0
              ELSE last'.op = "removeQueue" /\ last'.removed = q]_vars

\* the clock has ticked over a queue that holds a task of value 0 at its head
\* and a task of positive value behind it
C27_Witness ==
  /\ last.op = "tick" /\ ~decrementPaused
  /\ \E q \in Members :
       /\ subQueues[q] = <<0, Scale>>
       /\ progress[q] = 0 /\ initialDuration[q] = 0

\* C29: the pause flag is raised by an admit only, and each admit that raises
\* it schedules exactly one timeout; a timeout that fires lowers the flag and
\* is gone; so the flag is active only while a timeout is outstanding, and
\* once the last one has fired the flag is inactive until the next admit.
C29_PauseEnds ==
  [][/\ decrementPaused' => pauseTimers' > 0
     /\ (decrementPaused' /\ ~decrementPaused) => last'.op = "admitTask"
     /\ pauseTimers' > pauseTimers
          => last'.op = "admitTask" /\ pauseTimers' = pauseTimers + 1 /\ decrementPaused'
     /\ pauseTimers' < pauseTimers
          => last'.op = "pauseTimer" /\ pauseTimers' = pauseTimers - 1
     /\ last'.op = "pauseTimer" => ~decrementPaused' /\ pauseTimers' = pauseTimers - 1
     /\ (pauseTimers > 0 /\ ~effectsPending) => ENABLED PauseTimerFire]_vars

\* two admits have been made and the last of their timeouts has fired
C29_Witness ==
  /\ last.op = "pauseTimer"
  /\ pauseTimers = 0 /\ ~decrementPaused
  /\ TotalPending >= 2
  /\ \E q \in Members : initialDuration[q] > 0 /\ progress[q] = initialDuration[q]

\* a variant of the cascade: three for every pending value, two for every
\* empty member queue, one for every head that waits to be initialized
Measure ==
  3 * TotalPending
    + 2 * Cardinality({q \in Members : subQueues[q] = <<>>})
    + Cardinality({q \in Members : /\ subQueues[q] # <<>> /\ subQueues[q][1] > 0
                                   /\ initialDuration[q] = 0})

\* C30: a pass of the completion, initialization and rebalance effects that
\* changes the state lowers a non-negative measure, so that passes without a
\* tick or a handler between them end in a state the next pass leaves
\* unchanged; the receiver of a steal holds one task at most afterwards and is
\* not busy, so that the task moved is not moved back.
C30_CascadeTerminates ==
  [][last'.op = "effects" =>
       /\ Measure' >= 0
       /\ IF <<subQueues', progress', initialDuration'>> = <<subQueues, progress, initialDuration>>
            THEN ~effectsPending'
            ELSE effectsPending' /\ Measure' < Measure
       /\ \A m \in last'.steals :
            ~IsBusy(m.to)' /\ Len(subQueues'[m.to]) <= 1]_vars

\* in the middle of a cascade: the pass before completed a task and moved
\* another one, and the next pass is pending
C30_Witness ==
  /\ last.op = "effects" /\ effectsPending
  /\ last.completed # {} /\ last.steals # {}
  /\ \E m \in last.steals : subQueues[m.to] # <<>> /\ initialDuration[m.to] = 0

\* ------------------------------------------------- fair scheduling, values > 0
\* the buttons generate values > 0 only and are not pressed while LiveTimers
\* timeouts are outstanding; timers, the interval and the effects are run by
\* the runtime whenever they are due
NextPositive ==
  \/ \E value \in TaskValues \ {0}, type \in TaskTypes : AddTask(value, type)
  \/ admitTask /\ PendingTimers' <= LiveTimers
  \/ PauseTimerFire
  \/ Tick
  \/ addHighPriorityQueue /\ PendingTimers' <= LiveTimers
  \/ removeHighPriorityQueue
  \/ addRegularPriorityQueue /\ PendingTimers' <= LiveTimers
  \/ removeRegularPriorityQueue
  \/ GraceTimerFire
  \/ RunEffects

SpecLive ==
  /\ Init /\ [][NextPositive]_vars
  /\ WF_vars(Tick) /\ WF_vars(RunEffects)
  /\ WF_vars(PauseTimerFire) /\ WF_vars(GraceTimerFire)

\* a step of one of the operations of the user interface
UserStep == last'.op \in {"addTask", "admitTask", "addQueue", "removeQueue", "removeNothing"}

\* every queue of both groups is empty and at rest
AllDone ==
  \A q \in Members : subQueues[q] = <<>> /\ progress[q] = 0 /\ initialDuration[q] = 0

\* C28: with task values > 0 and fair ticks, timers and effects, if from some
\* point on no enqueue, admit, grow or shrink occurs, then eventually every
\* queue of both groups is empty with progress = initialDuration = 0, for good.
C28_AllTasksComplete == <>[][~UserStep]_vars => <>[]AllDone

\* a task admitted to a queue of three has run to its end and the queues are
\* empty and at rest again
C28_Witness ==
  /\ AllDone
  /\ last.op = "effects" /\ last.completed # {}
  /\ Len(regularPriorityQueues) = 3

\* how often the value v occurs in the sequence s
Count(s, v) == Cardinality({i \in 1..Len(s) : s[i] = v})

\* how often the value v occurs in the pending sequences of the queues of `group`
RECURSIVE GroupCount(_, _, _)
GroupCount(sq, group, v) ==
  IF group = <<>> THEN 0 ELSE Count(sq[group[1]], v) + GroupCount(sq, Tail(group), v)

\* the pending store a move of the pass is applied to: the store of the
\* snapshot, less the heads the completion effect of the same pass removes
BeforeMove(q) == IF q \in last'.completed THEN Tail(subQueues[q]) ELSE subQueues[q]

\* C31: a rebalance move takes the last value of the donor and puts that value
\* at the head of the idle queue; every value occurs in the group's pending
\* sequences as often after the move as before it, the pending of every other
\* queue of the group is as it was, and the move changes no progress and no
\* initialDuration (these change in the pass only where the completion or the
\* initialization effect applies).
C31_MoveConserves ==
  [][last'.op = "effects" =>
       \A m \in last'.steals :
         LET group == GroupOf(m.from)
             mid == [q \in Range(group) |-> BeforeMove(q)]
         IN /\ mid[m.from] # <<>>
            /\ subQueues'[m.from] = Front(mid[m.from])
            /\ subQueues'[m.to] = <<mid[m.from][Len(mid[m.from])]>> \o mid[m.to]
            /\ \A q \in Range(group) \ {m.from, m.to} : subQueues'[q] = mid[q]
            /\ \A v \in UNION {Range(mid[q]) \cup Range(subQueues'[q]) : q \in Range(group)} :
                 GroupCount(subQueues', group, v) = GroupCount(mid, group, v)
            /\ progress'[m.to] = progress[m.to]
            /\ initialDuration'[m.to] = initialDuration[m.to]
            /\ \A q \in Range(group) :
                 (progress'[q] # progress[q] \/ initialDuration'[q] # initialDuration[q])
                   => \/ q \in last'.completed
                      \/ subQueues[q] # <<>> /\ progress[q] = 0 /\ initialDuration[q] = 0]_vars

\* a move has put a task of positive value into an idle queue, next to a donor
\* that still holds its task in flight
C31_Witness ==
  /\ last.op = "effects" /\ last.completed = {}
  /\ \E m \in last.steals :
       /\ subQueues[m.to] # <<>> /\ subQueues[m.to][1] > 0
       /\ progress[m.to] = 0 /\ initialDuration[m.to] = 0
       /\ subQueues[m.from] # <<>>
       /\ 0 < progress[m.from] /\ progress[m.from] < initialDuration[m.from]

\* C32: no queue name occurs twice in the two group lists taken together, and
\* the names the next grow of either group would give, the group's prefix
\* followed by its size plus one, are not names of members.
C32_NamesUnique ==
  /\ \A i, j \in 1..Len(AllQueues) : i # j => AllQueues[i] # AllQueues[j]
  /\ Range(highPriorityQueues) \cap Range(regularPriorityQueues) = {}
  /\ HighName(Len(highPriorityQueues) + 1) \notin Members
  /\ RegularName(Len(regularPriorityQueues) + 1) \notin Members

\* both groups have been grown, the regular group after a shrink, back to the
\* name it had removed
C32_Witness ==
  /\ last.op = "addQueue" /\ last.target = RegularName(MaxRegular)
  /\ Len(regularPriorityQueues) = MaxRegular
  /\ Len(highPriorityQueues) = 2
  /\ Cardinality(Members) = MaxRegular + 2

\* ------------------------------------------- queues in their grace window
\* the states a head of value h can be in once the effects have run: at rest
\* for h = 0, in flight with some of h left for h > 0
HeadStates(s) ==
  IF s = <<>> \/ s[1] = 0 THEN {[pending |-> s, progress |-> 0, initialDuration |-> 0]}
  ELSE {[pending |-> s, progress |-> p, initialDuration |-> s[1]] :
          p \in {x \in 1..s[1] : (s[1] - x) % Decrement = 0}}

\* The regular group less than a second after regular2 and regular3 have been
\* added again and the tasks admitted since then have started: both queues
\* are in their grace window, regular3 holds the task it was given while the
\* queues before it held work, and the pause of these admits is over.
InitGrace ==
  \E a \in HeadStates(<<>>) \cup HeadStates(<<Scale>>),
     b \in HeadStates(<<>>) \cup HeadStates(<<Scale>>),
     c \in HeadStates(<<0>>) \cup HeadStates(<<Scale>>) :
    /\ queue = <<>>
    /\ highPriorityQueues = <<HighName(1)>>
    /\ regularPriorityQueues = <<RegularName(1), RegularName(2), RegularName(3)>>
    /\ newlyCreatedQueues = {RegularName(2), RegularName(3)}
    /\ graceTimers = <<RegularName(2), RegularName(3)>>
    /\ subQueues = (HighName(1) :> <<>>) @@ (RegularName(1) :> a.pending)
                     @@ (RegularName(2) :> b.pending) @@ (RegularName(3) :> c.pending)
    /\ origin = (HighName(1) :> <<>>)
                  @@ (RegularName(1) :> [i \in 1..Len(a.pending) |-> "normal"])
                  @@ (RegularName(2) :> [i \in 1..Len(b.pending) |-> "normal"])
                  @@ (RegularName(3) :> [i \in 1..Len(c.pending) |-> "normal"])
    /\ progress = (HighName(1) :> 0) @@ (HighName(2) :> 0) @@ (RegularName(1) :> a.progress)
                    @@ (RegularName(2) :> b.progress) @@ (RegularName(3) :> c.progress)
    /\ initialDuration = (HighName(1) :> 0) @@ (HighName(2) :> 0)
                           @@ (RegularName(1) :> a.initialDuration)
                           @@ (RegularName(2) :> b.initialDuration)
                           @@ (RegularName(3) :> c.initialDuration)
    /\ decrementPaused = FALSE
    /\ pauseTimers = 0
    /\ effectsPending = FALSE
    /\ last = NoLast

\* what can happen before the regular group is grown again
NextGrace ==
  \/ \E value \in TaskValues, type \in TaskTypes : AddTask(value, type)
  \/ admitTask
  \/ PauseTimerFire
  \/ Tick
  \/ addHighPriorityQueue
  \/ removeHighPriorityQueue
  \/ removeRegularPriorityQueue
  \/ GraceTimerFire
  \/ RunEffects

SpecGrace == InitGrace /\ [][NextGrace]_vars

====
